---- MODULE Spec2Model ----
(***************************************************************************)
(* Model of src/main.py: the vocabulary quiz bot.  One run of the script   *)
(* validates its environment, opens the ledger of used questions           *)
(* (init_db), asks the model service for an MCQ (call_groq, at most three  *)
(* attempts), falls back to a hardcoded MCQ, records the question in the   *)
(* ledger (mark_mcq_used), publishes a quiz poll (send_poll_to_telegram)   *)
(* with a text fallback (send_text_to_telegram), and exits.  The scheduler *)
(* re-invokes the script; the ledger file persists between runs.           *)
(*                                                                         *)
(* Question texts are numbers (1 and 2 are the two hardcoded fallback      *)
(* questions, the others are texts the model service may produce); option  *)
(* texts and explanations are strings.  Python's 0-based indices are kept  *)
(* as they are in the code; a TLA+ sequence is indexed from 1, so          *)
(* options[i] of the code is items[i + 1] here.                            *)
(***************************************************************************)
EXTENDS Integers, Sequences, FiniteSets, Bags, TLC

VARIABLES
    env_ok,          \* all of TELEGRAM_BOT_TOKEN, TELEGRAM_CHAT_ID, GROQ_API_KEY are set
    storage_faults,  \* environment: sqlite3 calls may raise in this world
    used_mcqs,       \* table used_mcqs of used_mcqs.db: a bag of rows (persists across runs)
    table_exists,    \* CREATE TABLE has been executed on the database file
    pc,              \* position of the run in the script
    attempt,         \* call_groq's parameter attempt
    log,             \* this run's model requests, oldest first: what became of each
    mcq,             \* generate_and_send_quiz's local mcq (NoMcq: None / not yet set)
    from_groq,       \* mcq was returned by call_groq (not the hardcoded fallback)
    poll,            \* the sendPoll request of this run and its outcome
    text,            \* the sendMessage request of this run and its outcome
    success,         \* send_poll_to_telegram's return value (read at pc = "return")
    sent,            \* history: how many sendPoll and sendMessage requests this run issued
    exit_code,       \* exit status of the process (-1 while it runs)
    crash,           \* the uncaught exception that ended the run ("none" if none)
    start_db,        \* the ledger rows as they were when this run started
    marked           \* history: the questions mark_mcq_used has been completed for

vars == <<env_ok, storage_faults, used_mcqs, table_exists, pc, attempt, log, mcq,
          from_groq, poll, text, success, sent, exit_code, crash, start_db, marked>>

----------------------------------------------------------------------------
(* Bounds of the model. *)

\* number of distinct question texts the model service can produce
NumQuestions == 2

(* Program constants. *)

\* call_groq: "if attempt >= 3"
MAX_RETRIES == 3
\* call_groq: len(mcq_data["options"]) == 4
NUM_OPTIONS == 4
\* call_groq: 0 <= correct_index <= 3
MAX_INDEX == 3
\* generate_and_send_quiz: "What is the synonym of 'ephemeral'?"
FALLBACK_QUESTION == 1
\* generate_and_send_quiz: "Antonym of 'ephemeral'?"
ALT_QUESTION == 2

ModelQuestions == (ALT_QUESTION + 1)..(ALT_QUESTION + NumQuestions)
Questions == {FALLBACK_QUESTION, ALT_QUESTION} \cup ModelQuestions

REQUIRED_KEYS == {"question", "options", "correct_index", "explanation"}

----------------------------------------------------------------------------
(* JSON values as json.loads returns them.  A number carries its type:     *)
(* "int" with val n is the integer n, "float" with val n is the float n/10 *)
(* (15 is 1.5), "bool" with val 0/1 is false/true, "str" is a string.      *)
(* options is a list, a dict, a str or a number; items are its entries     *)
(* (list elements, dict keys, characters).                                 *)

Value(t, v) == [type |-> t, val |-> v]
Options(t, items) == [type |-> t, items |-> items]

Payload(t, keys, q, opts, ci, expl) ==
    [type |-> t, keys |-> keys, question |-> q, options |-> opts,
     correct_index |-> ci, explanation |-> expl]

NoMcq == Payload("None", {}, 0, Options("list", <<>>), Value("int", 0), "")

ABCD == <<"a", "b", "c", "d">>
BAAC == <<"b", "a", "a", "c">>

\* a well-formed MCQ on question q; every other one has two options with the
\* same text, the correct one among them
GoodPayload(q) ==
    Payload("dict", REQUIRED_KEYS, q,
            Options("list", IF q % 2 = 0 THEN BAAC ELSE ABCD), Value("int", 2), "why")

\* the responses of the model service that parse as JSON
Payloads ==
    LET q == ALT_QUESTION + 1
        P(keys, opts, ci) == Payload("dict", keys, q, opts, ci, "why")
    IN  {GoodPayload(x) : x \in ModelQuestions}
        \cup
        { \* no explanation
          P(REQUIRED_KEYS \ {"explanation"}, Options("list", ABCD), Value("int", 2)),
          \* three options
          P(REQUIRED_KEYS, Options("list", <<"a", "b", "c">>), Value("int", 2)),
          \* index 5, index -1
          P(REQUIRED_KEYS, Options("list", ABCD), Value("int", 5)),
          P(REQUIRED_KEYS, Options("list", ABCD), Value("int", -1)),
          \* index 1.5
          P(REQUIRED_KEYS, Options("list", ABCD), Value("float", 15)),
          \* index "2"
          P(REQUIRED_KEYS, Options("list", ABCD), Value("str", 2)),
          \* index true
          P(REQUIRED_KEYS, Options("list", ABCD), Value("bool", 1)),
          \* options {"a": .., "b": .., "c": .., "d": ..}
          P(REQUIRED_KEYS, Options("dict", ABCD), Value("int", 2)),
          \* options 4
          P(REQUIRED_KEYS, Options("number", <<>>), Value("int", 2)),
          \* the response is a JSON array, not an object
          Payload("list", {}, q, Options("list", ABCD), Value("int", 2), "why") }

----------------------------------------------------------------------------
(* The ledger: table used_mcqs as the bag of its rows (question_hash,     *)
(* question); the columns id and created_at are never read.               *)

\* hashlib.md5(question.encode()).hexdigest(): the digest of the text,
\* taken to be collision-free on the question texts of the model
md5(question) == <<"md5", question>>

Row(question) == [question_hash |-> md5(question), question |-> question]

\* SELECT 1 FROM used_mcqs WHERE question_hash = ?
is_mcq_used(db, question) ==
    \E row \in BagToSet(db) : row.question_hash = md5(question)

\* what an INSERT statement leaves: the rows, and the error it raised
Inserted(rows, error) == [rows |-> rows, error |-> error]

\* a mark_mcq_used that never inserts
mark_mcq_used_noop(db, question) == Inserted(db, "none")

\* a plain INSERT: the UNIQUE constraint fails on a hash that is there
mark_mcq_used_strict(db, question) ==
    IF \E row \in BagToSet(db) : row.question_hash = md5(question)
    THEN Inserted(db, "IntegrityError")
    ELSE Inserted(db (+) SetToBag({Row(question)}), "none")

\* a plain INSERT into a table without the UNIQUE constraint
mark_mcq_used_dup(db, question) ==
    Inserted(db (+) SetToBag({Row(question)}), "none")

\* INSERT OR IGNORE against the UNIQUE column question_hash
mark_mcq_used(db, question) ==
    IF \E row \in BagToSet(db) : row.question_hash = md5(question)
    THEN Inserted(db, "none")
    ELSE Inserted(db (+) SetToBag({Row(question)}), "none")

\* (for the claims) the MCQ of the data model: a mapping with the four
\* keys, a list of exactly 4 options and an integer index in [0, 3]
\* (Python counts a bool as an int)
IsMCQ(p) ==
    /\ p.type = "dict"
    /\ {"question", "options", "correct_index", "explanation"} \subseteq p.keys
    /\ p.options.type = "list"
    /\ Len(p.options.items) = 4
    /\ p.correct_index.type \in {"int", "bool"}
    /\ p.correct_index.val \in 0..3

\* (for the claims) the ledger holds a row for this question text
InLedger(db, question) ==
    \E row \in BagToSet(db) : row.question = question

----------------------------------------------------------------------------
(* call_groq: the checks of lines 130-131 as Python evaluates them.        *)

\* all(key in mcq_data for key in [...]): keys of a dict; a list holds none
HasRequiredKeys(mcq_data) ==
    mcq_data.type = "dict" /\ REQUIRED_KEYS \subseteq mcq_data.keys

\* 0 <= correct_index <= 3 on an int, a float or a bool
IndexInRange(ci) ==
    CASE ci.type = "float" -> 0 <= ci.val /\ ci.val <= MAX_INDEX * 10
      [] OTHER             -> 0 <= ci.val /\ ci.val <= MAX_INDEX

\* "ok": both ifs pass; "invalid": one is false (line 138); "error": the
\* evaluation raises TypeError, len() of a number or 0 <= "2" (line 146)
ValidFormat(mcq_data) ==
    IF ~HasRequiredKeys(mcq_data) THEN "invalid"
    ELSE IF mcq_data.options.type = "number" THEN "error"
    ELSE IF Len(mcq_data.options.items) # NUM_OPTIONS THEN "invalid"
    ELSE IF mcq_data.correct_index.type = "str" THEN "error"
    ELSE IF IndexInRange(mcq_data.correct_index) THEN "ok"
    ELSE "invalid"

\* a retry guard that lets one more request through
MaxRetriesReached_late(n) == n > MAX_RETRIES

\* if attempt >= 3: return None
MaxRetriesReached(n) == n >= MAX_RETRIES

\* The text of a completion (choices[0].message.content, stripped) by its
\* parts, in the order they occur: prose, an opening fence ("```json" or
\* "```" on a line of its own), one JSON value (with or without a comma
\* before its last closing brace), the closing fence "```", prose.
Content(prose_before, fence, trailing_comma, prose_after) ==
    [prose_before   |-> prose_before,
     open           |-> fence,
     object         |-> TRUE,
     trailing_comma |-> trailing_comma,
     close          |-> fence # "none",
     prose_after    |-> prose_after]

\* no fence, the fence ```json, the fence ``` without a tag
Fences == {"none", "fence_json", "fence"}

Contents ==
    {Content(b, f, c, a) : b \in BOOLEAN, f \in Fences, c \in BOOLEAN, a \in BOOLEAN}

\* the JSON value and nothing else
BareJson == Content(FALSE, "none", FALSE, FALSE)

\* prose that holds no JSON value (no brace at all)
NoJson == [Content(TRUE, "none", FALSE, FALSE) EXCEPT !.object = FALSE]

\* lines 123-127: content[7:] when the text starts with "```json",
\* content[:-3] when it ends with "```"
strip_fences(content) ==
    LET starts == ~content.prose_before /\ content.open = "fence_json"
        ends   == ~content.prose_after /\ content.close
    IN  [content EXCEPT !.open  = IF starts THEN "none" ELSE @,
                        !.close = IF ends THEN FALSE ELSE @]

\* json.loads(content) returns a value: the text is one JSON value between
\* whitespace; anything else raises json.JSONDecodeError
json_loads_ok(content) ==
    /\ content.object
    /\ ~content.prose_before
    /\ content.open = "none"
    /\ ~content.trailing_comma
    /\ ~content.close
    /\ ~content.prose_after

\* what the model service answers: no answer (timeout, connection error,
\* non-2xx status), text that is not JSON, or JSON
Responses ==
    {[kind |-> "transport", payload |-> NoMcq, content |-> NoJson],
     [kind |-> "unparseable", payload |-> NoMcq, content |-> NoJson]}
    \cup {[kind |-> "json", payload |-> p, content |-> BareJson] : p \in Payloads}

\* answers whose text wraps a well-formed MCQ in prose and fences in every
\* way, and the answer that holds no JSON
TextResponses ==
    {[kind |-> "unparseable", payload |-> NoMcq, content |-> NoJson]}
    \cup {[kind |-> "json", payload |-> GoodPayload(q), content |-> c] :
             q \in ModelQuestions, c \in Contents}

\* whether a sqlite3 call raises: only where the storage can fail
SqliteRaises == IF storage_faults THEN BOOLEAN ELSE {FALSE}

\* a dedup check with its condition inverted
Outcome_inverted(db, resp, raises) ==
    CASE resp.kind = "transport"   -> "transport"
      [] resp.kind = "unparseable" -> "unparseable"
      [] ~json_loads_ok(strip_fences(resp.content)) -> "unparseable"
      [] OTHER ->
           LET v == ValidFormat(resp.payload)
           IN  IF v # "ok" THEN v
               ELSE IF raises THEN "storage_error"
               ELSE IF ~is_mcq_used(db, resp.payload.question) THEN "duplicate"
               ELSE "unique"

\* what becomes of one request of call_groq (lines 117-148), given the
\* ledger and whether is_mcq_used raises:
\*   "transport"      except RequestException        (line 140)
\*   "unparseable"    except json.JSONDecodeError    (line 143)
\*   "invalid"        Invalid MCQ format             (line 138)
\*   "error"          except Exception               (line 146)
\*   "storage_error"  is_mcq_used raised, caught by except Exception (line 146)
\*   "duplicate"      is_mcq_used is true            (line 133)
\*   "unique"         return mcq_data                (line 137)
Outcome(db, resp, raises) ==
    CASE resp.kind = "transport"   -> "transport"
      [] resp.kind = "unparseable" -> "unparseable"
      [] ~json_loads_ok(strip_fences(resp.content)) -> "unparseable"
      [] OTHER ->
           LET v == ValidFormat(resp.payload)
           IN  IF v # "ok" THEN v
               ELSE IF raises THEN "storage_error"
               ELSE IF is_mcq_used(db, resp.payload.question) THEN "duplicate"
               ELSE "unique"

----------------------------------------------------------------------------
(* generate_and_send_quiz: the hardcoded fallback (lines 211-223). *)

LITERAL_FALLBACK ==
    Payload("dict", REQUIRED_KEYS, FALLBACK_QUESTION,
            Options("list", <<"Eternal", "Temporary", "Permanent", "Endless">>),
            Value("int", 1),
            "Ephemeral means lasting for a very short time, like a mayfly's life.")

ALT_FALLBACK ==
    Payload("dict", REQUIRED_KEYS, ALT_QUESTION,
            Options("list", <<"Eternal", "Fleeting", "Brief", "Short">>),
            Value("int", 0),
            "Ephemeral means short-lived; its antonym is eternal.")

\* a fallback that is never varied
fallback_mcq_literal(db) == LITERAL_FALLBACK

fallback_mcq(db) ==
    IF is_mcq_used(db, FALLBACK_QUESTION) THEN ALT_FALLBACK ELSE LITERAL_FALLBACK

----------------------------------------------------------------------------
(* send_poll_to_telegram: the shuffle (lines 155-160). *)

\* the orders random.shuffle can leave a list of n entries in
Perms(n) == {f \in [1..n -> 1..n] : \A i, j \in 1..n : i # j => f[i] # f[j]}

Shuffled(items, perm) == [i \in 1..Len(items) |-> items[perm[i]]]

\* the index sent is the index the correct option had before the shuffle
new_correct_index_stale(items, original_correct, old_index) == old_index

\* options.index(original_correct): the first position holding an equal text
new_correct_index(items, original_correct, old_index) ==
    (CHOOSE i \in 1..Len(items) :
        /\ items[i] = original_correct
        /\ \A j \in 1..(i - 1) : items[j] # original_correct) - 1

\* options[mcq["correct_index"]] or random.shuffle(options) raises: a dict has
\* no numeric key (KeyError), a float is no list index (TypeError)
ShuffleRaises(m) ==
    m.options.type # "list" \/ m.correct_index.type \notin {"int", "bool"}

\* chr(66 + new_correct_index): the letters start one too far
Letter_shifted(i) == <<"B", "C", "D", "E">>[i + 1]

\* chr(65 + new_correct_index)
Letter(i) == <<"A", "B", "C", "D">>[i + 1]

NoPoll ==
    [sent |-> FALSE, question |-> 0, options |-> <<>>, correct_option_id |-> -1,
     explanation |-> "", result |-> "none"]

NoText ==
    [sent |-> FALSE, question |-> 0, options |-> <<>>, correct |-> "",
     explanation |-> "", result |-> "none"]

----------------------------------------------------------------------------
(* The run. *)

\* no request to the chat service has been issued
NoneSent == [sendPoll |-> 0, sendMessage |-> 0]

RunVars == <<attempt, log, mcq, from_groq, poll, text, success, sent>>

\* an uncaught exception: the interpreter prints the traceback and exits 1
Crashes(what) ==
    /\ crash' = what
    /\ exit_code' = 1
    /\ pc' = "exit"

\* every run starts with nothing requested and nothing sent
FreshRun ==
    /\ pc = "import"
    /\ attempt = 0
    /\ log = <<>>
    /\ mcq = NoMcq
    /\ from_groq = FALSE
    /\ poll = NoPoll
    /\ text = NoText
    /\ success = FALSE
    /\ sent = NoneSent
    /\ exit_code = -1
    /\ crash = "none"

\* the first run: no database file yet
InitRun ==
    /\ env_ok \in BOOLEAN
    /\ used_mcqs = EmptyBag
    /\ table_exists = FALSE
    /\ start_db = EmptyBag
    /\ marked = {}
    /\ FreshRun

Init ==
    /\ storage_faults = FALSE
    /\ InitRun

InitStorageFaults ==
    /\ storage_faults = TRUE
    /\ InitRun

\* lines 24-31: without the three environment variables the script exits 1
validate_env ==
    /\ pc = "import"
    /\ IF env_ok
       THEN /\ pc' = "main"
            /\ UNCHANGED <<exit_code, crash>>
       ELSE /\ pc' = "exit"
            /\ exit_code' = 1
            /\ UNCHANGED crash
    /\ UNCHANGED <<env_ok, storage_faults, used_mcqs, table_exists, start_db, marked>>
    /\ UNCHANGED RunVars

\* main, line 238: CREATE TABLE IF NOT EXISTS keeps the rows of earlier runs
init_db ==
    /\ pc = "main"
    /\ \E raises \in SqliteRaises :
          IF raises
          THEN /\ Crashes("init_db")
               /\ UNCHANGED table_exists
          ELSE /\ table_exists' = TRUE
               /\ pc' = "call_groq"
               /\ UNCHANGED <<exit_code, crash>>
    /\ UNCHANGED <<env_ok, storage_faults, used_mcqs, start_db, marked>>
    /\ UNCHANGED RunVars

\* the seconds call_groq waits before it calls itself with attempt + 1:
\* every "return call_groq(attempt + 1)" (lines 135, 139, 142, 145, 148)
\* follows its logger call directly, and the script never calls time.sleep
retry_delay(next_attempt) == 0

\* the record of one request: what became of it, the seconds waited since
\* the request before it, the shape of the text received, and the response
\* itself when it was an MCQ on a question the ledger does not hold or when
\* the dedup check raised on it
LogEntry(db, resp, o, waited) ==
    [outcome |-> o,
     waited  |-> waited,
     content |-> resp.content,
     payload |-> IF \/ o = "storage_error"
                    \/ /\ resp.kind = "json"
                       /\ IsMCQ(resp.payload)
                       /\ ~InLedger(db, resp.payload.question)
                 THEN resp.payload
                 ELSE NoMcq]

\* one invocation of call_groq(attempt): return None at the bound, else one
\* request; a result that is not returned recurses with attempt + 1
call_groq_on(responses) ==
    /\ pc = "call_groq"
    /\ \/ /\ MaxRetriesReached(attempt)
          /\ pc' = "fallback"
          /\ UNCHANGED <<attempt, log, mcq, from_groq>>
       \/ /\ ~MaxRetriesReached(attempt)
          /\ \E resp \in responses, raises \in SqliteRaises :
                LET o == Outcome(used_mcqs, resp, raises)
                    waited == IF attempt = 0 THEN 0 ELSE retry_delay(attempt)
                IN  /\ log' = Append(log, LogEntry(used_mcqs, resp, o, waited))
                    /\ IF o = "unique"
                       THEN /\ mcq' = resp.payload
                            /\ from_groq' = TRUE
                            /\ pc' = "mark"
                            /\ UNCHANGED attempt
                       ELSE /\ attempt' = attempt + 1
                            /\ UNCHANGED <<mcq, from_groq, pc>>
    /\ UNCHANGED <<env_ok, storage_faults, used_mcqs, table_exists, start_db, marked,
                   poll, text, success, sent, exit_code, crash>>

call_groq == call_groq_on(Responses)

\* call_groq on the answers of TextResponses
call_groq_text == call_groq_on(TextResponses)

\* generate_and_send_quiz, lines 208-223: call_groq returned None
use_fallback ==
    /\ pc = "fallback"
    /\ \E raises \in SqliteRaises :
          IF raises
          THEN /\ Crashes("is_mcq_used")
               /\ UNCHANGED mcq
          ELSE /\ mcq' = fallback_mcq(used_mcqs)
               /\ pc' = "mark"
               /\ UNCHANGED <<exit_code, crash>>
    /\ UNCHANGED <<env_ok, storage_faults, used_mcqs, table_exists, start_db, marked,
                   attempt, log, from_groq, poll, text, success, sent>>

\* generate_and_send_quiz, line 226
mark_used ==
    /\ pc = "mark"
    /\ \E raises \in SqliteRaises :
          LET done == mark_mcq_used(used_mcqs, mcq.question)
          IN  IF raises \/ done.error # "none"
              THEN /\ Crashes("mark_mcq_used")
                   /\ UNCHANGED <<used_mcqs, marked>>
              ELSE /\ used_mcqs' = done.rows
                   /\ marked' = marked \cup {mcq.question}
                   /\ pc' = "send_poll"
                   /\ UNCHANGED <<exit_code, crash>>
    /\ UNCHANGED <<env_ok, storage_faults, table_exists, start_db>>
    /\ UNCHANGED RunVars

\* a publish step that sends the poll again when the request failed
AfterPoll_retry(result) ==
    CASE result = "ok"               -> "return"
      [] result = "RequestException" -> "send_poll"
      [] OTHER                       -> "return"

\* where send_poll_to_telegram goes on after the sendPoll request: return True
\* (line 175), the except branch that sends the text (line 177), return False
\* (line 185)
AfterPoll(result) ==
    CASE result = "ok"               -> "return"
      [] result = "RequestException" -> "send_text"
      [] OTHER                       -> "return"

\* send_poll_to_telegram up to the outcome of the sendPoll request.
\* random.shuffle permutes mcq["options"] in place; mcq keeps the list as it
\* was before and poll.options is the shuffled list, the one every later read
\* (the payload, fallback_msg) uses.
send_poll_to_telegram ==
    /\ pc = "send_poll"
    /\ IF ShuffleRaises(mcq)
       THEN /\ Crashes("send_poll_to_telegram")
            /\ UNCHANGED <<poll, success, sent>>
       ELSE \E perm \in Perms(Len(mcq.options.items)),
               result \in {"ok", "RequestException", "Exception"} :
               LET original_correct == mcq.options.items[mcq.correct_index.val + 1]
                   options == Shuffled(mcq.options.items, perm)
               IN  /\ poll' = [sent |-> TRUE,
                               question |-> mcq.question,
                               options |-> options,
                               correct_option_id |->
                                   new_correct_index(options, original_correct,
                                                     mcq.correct_index.val),
                               explanation |-> mcq.explanation,
                               result |-> result]
                   /\ sent' = [sent EXCEPT !.sendPoll = @ + 1]
                   /\ pc' = AfterPoll(result)
                   /\ CASE result = "ok" -> success' = TRUE
                        [] result = "RequestException" -> UNCHANGED success
                        [] OTHER -> success' = FALSE
                   /\ UNCHANGED <<exit_code, crash>>
    /\ UNCHANGED <<env_ok, storage_faults, used_mcqs, table_exists, start_db, marked,
                   attempt, log, mcq, from_groq, text>>

\* send_poll_to_telegram, lines 181-182: the result of send_text_to_telegram
\* is dropped and False returned
PollResultAfterText(text_result) == FALSE

\* the except branch of send_poll_to_telegram (lines 177-182) with
\* send_text_to_telegram (lines 187-202)
send_text_to_telegram ==
    /\ pc = "send_text"
    /\ \E result \in {"ok", "Exception"} :
          /\ text' = [sent |-> TRUE,
                      question |-> mcq.question,
                      options |-> poll.options,
                      correct |-> Letter(poll.correct_option_id),
                      explanation |-> mcq.explanation,
                      result |-> result]
          /\ success' = PollResultAfterText(result)
    /\ sent' = [sent EXCEPT !.sendMessage = @ + 1]
    /\ pc' = "return"
    /\ UNCHANGED <<env_ok, storage_faults, used_mcqs, table_exists, start_db, marked,
                   attempt, log, mcq, from_groq, poll, exit_code, crash>>

\* main, line 241: the return value is dropped; the script ends normally
ExitStatus(ok) == 0

\* generate_and_send_quiz returns success (lines 229-233), main returns
finish ==
    /\ pc = "return"
    /\ exit_code' = ExitStatus(success)
    /\ pc' = "exit"
    /\ UNCHANGED <<env_ok, storage_faults, used_mcqs, table_exists, start_db, marked, crash>>
    /\ UNCHANGED RunVars

\* the scheduler invokes the script again; used_mcqs.db is still there
NewRun ==
    /\ pc = "exit"
    /\ env_ok' \in BOOLEAN
    /\ start_db' = used_mcqs
    /\ pc' = "import"
    /\ attempt' = 0
    /\ log' = <<>>
    /\ mcq' = NoMcq
    /\ from_groq' = FALSE
    /\ poll' = NoPoll
    /\ text' = NoText
    /\ success' = FALSE
    /\ sent' = NoneSent
    /\ exit_code' = -1
    /\ crash' = "none"
    /\ UNCHANGED <<storage_faults, used_mcqs, table_exists, marked>>

Next ==
    \/ validate_env
    \/ init_db
    \/ call_groq
    \/ use_fallback
    \/ mark_used
    \/ send_poll_to_telegram
    \/ send_text_to_telegram
    \/ finish
    \/ NewRun

Spec == Init /\ [][Next]_vars

\* a step of the running script (every step but the scheduler's)
RunStep ==
    \/ validate_env
    \/ init_db
    \/ call_groq
    \/ use_fallback
    \/ mark_used
    \/ send_poll_to_telegram
    \/ send_text_to_telegram
    \/ finish

SpecStorageFaults == InitStorageFaults /\ [][Next]_vars

----------------------------------------------------------------------------
(* Claims. *)

\* the run has ended (normally or by an uncaught exception)
Ended == pc = "exit"

\* generate_and_send_quiz is about to return success
Returning == pc = "return"

(* C1: the question is in the ledger before the sendPoll request is issued *)
(* (the step that issues the request starts from a ledger that holds it),  *)
(* and whatever becomes of the poll and of the text fallback, the question *)
(* is in the ledger when the run ends.                                     *)
C1_MarkedBeforePublish ==
    /\ [][(~poll.sent /\ poll'.sent) => is_mcq_used(used_mcqs, poll'.question)]_vars
    /\ [](poll.sent => is_mcq_used(used_mcqs, poll.question))

\* a run whose poll and text fallback both failed has ended
C1_Witness ==
    /\ Ended
    /\ poll.sent /\ poll.result = "RequestException"
    /\ text.sent /\ text.result = "Exception"
    /\ from_groq

(* C2: generate_and_send_quiz returns true exactly when the chat service   *)
(* accepted the poll or the fallback text message.                         *)
C2_SuccessIffAccepted ==
    Returning => (success <=> (poll.result = "ok" \/ text.result = "ok"))

(* C3: a run makes at most 3 requests to the model service; every request  *)
(* that does not return an MCQ, whatever its failure, adds one to the same *)
(* counter; when the counter is 3 call_groq has returned None after        *)
(* exactly 3 requests.                                                     *)
C3_AtMostThreeRequests ==
    /\ Len(log) <= 3
    /\ attempt = Cardinality({i \in 1..Len(log) : log[i].outcome # "unique"})
    /\ attempt >= 3 => Len(log) = 3 /\ ~from_groq
    /\ pc = "fallback" => attempt = 3 /\ mcq = NoMcq

\* three requests failed in three different ways and call_groq gave up
C3_Witness ==
    /\ pc = "fallback"
    /\ log[1].outcome = "transport"
    /\ log[2].outcome = "invalid"
    /\ log[3].outcome = "duplicate"

\* request i of this run was answered with an MCQ whose question the ledger
\* did not hold
Fresh(i) ==
    /\ IsMCQ(log[i].payload)
    /\ ~InLedger(start_db, log[i].payload.question)

(* C4: when a response of the run is a valid MCQ on a question that is not *)
(* in the ledger, call_groq returns that response, it is the last request  *)
(* of the run (so it is the first such response), and when the run has     *)
(* ended is_mcq_used reports its question as used.                         *)
C4_FirstNovelReturned ==
    \A i \in 1..Len(log) :
        Fresh(i) =>
            /\ i = Len(log)
            /\ from_groq
            /\ mcq = log[i].payload
            /\ Ended => is_mcq_used(used_mcqs, log[i].payload.question)

\* duplicate, duplicate, novel: the third response was returned and the run
\* has ended with its question in the ledger
C4_Witness ==
    /\ Ended
    /\ Len(log) = 3
    /\ log[1].outcome = "duplicate"
    /\ log[2].outcome = "duplicate"
    /\ Fresh(3)
    /\ mcq = log[3].payload
    /\ is_mcq_used(used_mcqs, mcq.question)

\* every model attempt of the run failed
Exhausted ==
    /\ Len(log) = 3
    /\ \A i \in 1..3 : log[i].outcome # "unique"

\* text t occurs as often in list a as in list b
SameCount(a, b, t) ==
    Cardinality({i \in 1..Len(a) : a[i] = t}) = Cardinality({i \in 1..Len(b) : b[i] = t})

SameMultiset(a, b) ==
    /\ Len(a) = Len(b)
    /\ \A i \in 1..Len(a) : SameCount(a, b, a[i])

(* C5: a run whose model attempts all failed publishes the hardcoded       *)
(* fallback MCQ when its question was not in the ledger, and the antonym   *)
(* framing, with its own options and correct index 0, when it was.         *)
C5_FallbackPublished ==
    (Exhausted /\ Ended) =>
        /\ poll.sent
        /\ ~from_groq
        /\ poll.question = mcq.question
        /\ SameMultiset(poll.options, mcq.options.items)
        /\ IF InLedger(start_db, FALLBACK_QUESTION)
           THEN /\ mcq.question = ALT_QUESTION
                /\ mcq.options.items = <<"Eternal", "Fleeting", "Brief", "Short">>
                /\ mcq.correct_index = Value("int", 0)
                /\ poll.options[poll.correct_option_id + 1] = "Eternal"
           ELSE /\ mcq.question = FALLBACK_QUESTION
                /\ mcq.options.items = <<"Eternal", "Temporary", "Permanent", "Endless">>
                /\ mcq.correct_index = Value("int", 1)
                /\ poll.options[poll.correct_option_id + 1] = "Temporary"

\* the model service timed out three times, the literal fallback was used
\* by an earlier run, and the antonym framing went out
C5_Witness ==
    /\ Ended
    /\ Exhausted
    /\ \A i \in 1..3 : log[i].outcome = "transport"
    /\ InLedger(start_db, FALLBACK_QUESTION)
    /\ poll.sent
    /\ poll.question = ALT_QUESTION

(* C6: an error raised by the ledger during a dedup check is fail-open:    *)
(* the candidate is returned as if it were no duplicate, without consuming *)
(* an attempt, and the dedup check of the fallback never aborts the run.   *)
C6_StorageErrorFailsOpen ==
    /\ \A i \in 1..Len(log) :
          log[i].outcome = "storage_error" =>
              /\ i = Len(log)
              /\ attempt = i - 1
              /\ mcq = log[i].payload
    /\ crash # "is_mcq_used"

(* C7: every payload call_groq returns is a mapping with question,         *)
(* options, correct_index and explanation, whose options are a list of     *)
(* exactly 4 entries and whose correct_index is an integer in [0, 3].      *)
C7_OnlyMCQsAccepted ==
    from_groq => IsMCQ(mcq)

(* C8: is_mcq_used(q) is true exactly for the questions mark_mcq_used has  *)
(* been completed for (false on the empty ledger and before the first      *)
(* mark of q, true after it and after every repetition); a mark of a       *)
(* question that is already in the ledger raises no error and leaves the   *)
(* ledger as it was.                                                       *)
C8_LedgerContract ==
    /\ [](\A q \in Questions : is_mcq_used(used_mcqs, q) <=> q \in marked)
    /\ [][pc = "mark" /\ pc' # "mark" =>
            /\ pc' = "send_poll"
            /\ is_mcq_used(used_mcqs', mcq.question)
            /\ mcq.question \in marked => used_mcqs' = used_mcqs]_vars

\* a question that an earlier run had marked has been marked again
C8_Witness ==
    /\ pc = "send_poll"
    /\ is_mcq_used(start_db, mcq.question)
    /\ mcq.question \in marked
    /\ used_mcqs = start_db

(* C9: whatever order the shuffle leaves, the options sent are the options *)
(* of the MCQ with the same multiplicities, and correct_option_id is a     *)
(* position of the sent list that holds the text of the option that was    *)
(* correct before the shuffle.                                             *)
C9_ShufflePreservesAnswer ==
    poll.sent =>
        /\ SameMultiset(poll.options, mcq.options.items)
        /\ poll.correct_option_id \in 0..3
        /\ poll.options[poll.correct_option_id + 1]
               = mcq.options.items[mcq.correct_index.val + 1]

\* the correct text occurs twice, the shuffle moved it, and the index sent
\* differs from the index before the shuffle
C9_Witness ==
    /\ poll.sent
    /\ Cardinality({i \in 1..4 :
           mcq.options.items[i] = mcq.options.items[mcq.correct_index.val + 1]}) = 2
    /\ poll.options # mcq.options.items
    /\ poll.correct_option_id # mcq.correct_index.val
    /\ poll.options[mcq.correct_index.val + 1]
           # mcq.options.items[mcq.correct_index.val + 1]

\* neither the poll nor the text message was accepted, or the
\* configuration is missing
TerminalFailure ==
    \/ ~env_ok
    \/ /\ poll.sent /\ poll.result # "ok"
       /\ text.result # "ok"

(* C10: a run that ends in terminal failure exits with a non-zero code.    *)
C10_FailureExitsNonZero ==
    (Ended /\ TerminalFailure) => exit_code # 0

\* an upper bound on the steps the run has left: each position of the
\* script counts one, each model request still allowed counts one
StepsLeft ==
    CASE pc = "import"    -> 11
      [] pc = "main"      -> 10
      [] pc = "call_groq" -> 9 - attempt
      [] pc = "fallback"  -> 5
      [] pc = "mark"      -> 4
      [] pc = "send_poll" -> 3
      [] pc = "send_text" -> 2
      [] pc = "return"    -> 1
      [] OTHER            -> 0

(* C11: every run ends: a run that has not ended can always take a step    *)
(* (every network call returns a result or an error), and every step it    *)
(* takes lowers a bound on the steps left that is never negative; the run  *)
(* makes at most 3 requests to the model service, at most one sendPoll     *)
(* request and at most one sendMessage request, the sendMessage request is *)
(* the fallback of a sendPoll that failed in transport, and once the poll  *)
(* has been sent the run makes no model request and sends no second poll.  *)
C11_RunTerminates ==
    /\ [](~Ended => ENABLED RunStep)
    /\ [](StepsLeft >= 0)
    /\ [][~Ended => StepsLeft' < StepsLeft]_vars
    /\ [](Len(log) <= 3 /\ sent.sendPoll <= 1 /\ sent.sendMessage <= 1)
    /\ [](sent.sendMessage = 1 =>
             sent.sendPoll = 1 /\ poll.result = "RequestException")
    /\ [][(sent.sendPoll = 1 /\ ~Ended) =>
             (log' = log /\ sent'.sendPoll = 1)]_vars

\* three model requests, the fallback MCQ, one poll and one text message,
\* and the run has ended
C11_Witness ==
    /\ Ended
    /\ Len(log) = 3
    /\ ~from_groq
    /\ sent = [sendPoll |-> 1, sendMessage |-> 1]
    /\ text.result = "Exception"

(* C12: a response whose text holds a valid MCQ on a question that is not  *)
(* in the ledger is accepted whatever prose, fence (tagged json or not)    *)
(* or trailing comma surrounds the JSON object, and a response is an       *)
(* extraction failure only when its text holds no brace at all.            *)
C12_WrappedAccepted ==
    \A i \in 1..Len(log) :
        /\ (log[i].content.object /\ Fresh(i)) => log[i].outcome = "unique"
        /\ log[i].outcome = "unparseable" => ~log[i].content.object

(* C13: no run publishes, as poll or as text message, a question that was  *)
(* in the ledger when the run started, whatever the earlier runs on the    *)
(* same ledger did, the literal fallback and its antonym framing having    *)
(* been used included.                                                     *)
C13_NeverRepublished ==
    /\ poll.sent => ~InLedger(start_db, poll.question)
    /\ text.sent => ~InLedger(start_db, text.question)

(* C14: the ledger only grows (no step removes a row), it holds at most    *)
(* one row per fingerprint, only the mark step of generate_and_send_quiz   *)
(* changes it (call_groq and the publish functions never do), and a run    *)
(* adds at most one row, the row of the question it goes on to publish.    *)
C14_LedgerOnlyGrows ==
    /\ [][used_mcqs \sqsubseteq used_mcqs']_vars
    /\ [][pc # "mark" => used_mcqs' = used_mcqs]_vars
    /\ [](\A r1, r2 \in BagToSet(used_mcqs) :
             /\ CopiesIn(r1, used_mcqs) = 1
             /\ r1.question_hash = r2.question_hash => r1 = r2)
    /\ [](\/ used_mcqs = start_db
          \/ /\ used_mcqs = start_db (+) SetToBag({Row(mcq.question)})
             /\ ~is_mcq_used(start_db, mcq.question))
    /\ [](poll.sent => poll.question = mcq.question)

\* a run on a ledger of three rows has added the row of the question it
\* published
C14_Witness ==
    /\ Ended
    /\ BagCardinality(start_db) = 3
    /\ BagCardinality(used_mcqs) = 4
    /\ poll.sent
    /\ BagIn(Row(poll.question), used_mcqs)
    /\ ~BagIn(Row(poll.question), start_db)

\* send_poll_to_telegram has returned or the run is over
PublishDone == pc \in {"return", "exit"} /\ crash = "none"

(* C15: when the sendPoll request failed in transport, one text message    *)
(* and no more was attempted, with the question, the four options in the   *)
(* order the poll had them, and as correct letter the letter (A for the    *)
(* first option to D for the fourth) of an option whose text is the text   *)
(* that was correct before the shuffle; when the poll was accepted no text *)
(* message was attempted.                                                  *)
C15_TextFallback ==
    /\ sent.sendMessage <= 1
    /\ (PublishDone /\ poll.result = "RequestException") =>
          /\ sent.sendMessage = 1
          /\ text.sent
          /\ text.question = poll.question
          /\ Len(text.options) = 4
          /\ text.options = poll.options
          /\ \E k \in 1..4 :
                /\ text.correct = <<"A", "B", "C", "D">>[k]
                /\ text.options[k] = mcq.options.items[mcq.correct_index.val + 1]
    /\ poll.result = "ok" => (sent.sendMessage = 0 /\ ~text.sent)

\* the poll failed in transport after a shuffle that moved the correct
\* option to the last place, and the text message marks D
C15_Witness ==
    /\ PublishDone
    /\ poll.result = "RequestException"
    /\ text.sent
    /\ poll.options # mcq.options.items
    /\ mcq.correct_index.val = 0
    /\ poll.correct_option_id = 3
    /\ text.correct = "D"

(* C16: every model request of a run but the first is issued after a      *)
(* delay, and the delay grows linearly with the attempt number: before     *)
(* request i + 1 the run waits i times what it waits before request 2.     *)
C16_LinearDelay ==
    \A i \in 2..Len(log) :
        /\ log[i].waited > 0
        /\ log[i].waited = (i - 1) * log[2].waited

(* C17: the explanation of the sendPoll request is never longer than the   *)
(* 200 characters the chat service accepts for a quiz explanation, and an  *)
(* explanation of at most 200 characters is sent as it is.                 *)
C17_ExplanationWithinLimit ==
    poll.sent =>
        /\ Len(poll.explanation) <= 200
        /\ Len(mcq.explanation) <= 200 => poll.explanation = mcq.explanation

----------------------------------------------------------------------------
(* call_groq on answers that wrap an MCQ in prose and fences, from the     *)
(* state init_db leaves in the first run.                                  *)

InitExtract ==
    /\ env_ok = TRUE
    /\ storage_faults = FALSE
    /\ used_mcqs = EmptyBag
    /\ table_exists = TRUE
    /\ start_db = EmptyBag
    /\ marked = {}
    /\ pc = "call_groq"
    /\ attempt = 0
    /\ log = <<>>
    /\ mcq = NoMcq
    /\ from_groq = FALSE
    /\ poll = NoPoll
    /\ text = NoText
    /\ success = FALSE
    /\ sent = NoneSent
    /\ exit_code = -1
    /\ crash = "none"

NextExtract == call_groq_text

SpecExtract == InitExtract /\ [][NextExtract]_vars

----------------------------------------------------------------------------
(* send_poll_to_telegram on every MCQ with 4 options over three texts,     *)
(* every correct_index in [0, 3], and a short and a long explanation.      *)

OptionTexts == {"a", "b", "c"}

\* the text s written n times
RECURSIVE Repeat(_, _)
Repeat(s, n) == IF n = 0 THEN "" ELSE s \o Repeat(s, n - 1)

\* an explanation of 210 characters; call_groq checks no length
LongExplanation == Repeat("0123456789", 21)

\* mcq["explanation"] as the model service wrote it
Explanations == {"why", LongExplanation}

InitShuffle ==
    /\ env_ok = TRUE
    /\ storage_faults = FALSE
    /\ table_exists = TRUE
    /\ pc = "send_poll"
    /\ attempt = 0
    /\ \E items \in [1..NUM_OPTIONS -> OptionTexts], ci \in 0..MAX_INDEX,
          explanation \in Explanations :
          /\ mcq = Payload("dict", REQUIRED_KEYS, ALT_QUESTION + 1,
                           Options("list", items), Value("int", ci), explanation)
          /\ log = <<LogEntry(EmptyBag, [kind |-> "json", payload |-> mcq,
                                         content |-> BareJson], "unique", 0)>>
    /\ from_groq = TRUE
    /\ used_mcqs = mark_mcq_used(EmptyBag, mcq.question).rows
    /\ marked = {mcq.question}
    /\ start_db = EmptyBag
    /\ poll = NoPoll
    /\ text = NoText
    /\ success = FALSE
    /\ sent = NoneSent
    /\ exit_code = -1
    /\ crash = "none"

NextShuffle ==
    \/ send_poll_to_telegram
    \/ send_text_to_telegram
    \/ finish

SpecShuffle == InitShuffle /\ [][NextShuffle]_vars

====
